---- MODULE Spec2Model ----
(***************************************************************************)
(* State-machine model of robsec::Game (src/src/robsec/game.cpp, the last  *)
(* revision in the file, lines 749-1495, with its header                   *)
(* src/unnamed/part_004).                                                  *)
(*                                                                         *)
(* std::size_t is modelled as an unsigned integer of SizeBits bits; every  *)
(* size_t expression of the source is evaluated modulo 2^SizeBits.  A      *)
(* std::string is a sequence of one-character strings.  The curses calls   *)
(* of render() other than mvaddch are taken to succeed; mvaddch fails when *)
(* the cell lies outside the window.                                       *)
(***************************************************************************)
EXTENDS Integers, Sequences, FiniteSets, TLC

(* ------------------------------ bounds -------------------------------- *)
\* Width of std::size_t in the model.
SizeBits == 8
\* Largest number of words and of attempts a session is configured with.
MaxWords == 2
MaxAttempts == 2
\* Largest grid of the sessions that trace the coordinate conversions.
MaxPanels == 3
MaxRows == 3
MaxColumns == 4
\* Longest string of the sessions that trace the feedback score.
MaxLetters == 4

(* ------------------------- program constants -------------------------- *)
ADDRESS_LEN == 6
HEADER_LEN == 3 + 2
\* Number of length groups created by load_dictionary.
NumGroups == 256
\* int round = 100 in initialize.
OuterRounds == 100
\* round < 20 in find_unoccupied_space_for_word.
InnerRounds == 20

(* --------------------------- machine integers -------------------------- *)
RECURSIVE Pow2(_)
Pow2(n) == IF n = 0 THEN 1 ELSE 2 * Pow2(n - 1)

\* Number of values of std::size_t.
SizeModulus == Pow2(SizeBits)

Add(a, b) == (a + b) % SizeModulus
Sub(a, b) == (a - b + SizeModulus) % SizeModulus
Mul(a, b) == (a * b) % SizeModulus

\* static_cast<int>(std::size_t): int is narrower than size_t; the value is
\* truncated and read as a two's complement number.
IntModulus == Pow2(SizeBits - 1)
ToInt(v) ==
    LET t == v % IntModulus
    IN IF t < IntModulus \div 2 THEN t ELSE t - IntModulus

\* The grids (n_panels, n_rows, n_columns) a session is configured with: one
\* cell, one panel of two rows, two panels of one row of three cells.
Grids == {<<1, 1, 1>>, <<1, 2, 1>>, <<2, 1, 3>>}

\* The window of the terminal: it holds the largest grid of the model, with
\* one more line and column.
ScreenCols == (ADDRESS_LEN + 1 + 3 + 2) * 2
ScreenRows == HEADER_LEN + 2 + 1

(* ------------------------------- strings ------------------------------- *)
\* toupper on the characters the dictionaries of the model use.
toupper(c) ==
    CASE c = "a" -> "A"
      [] c = "b" -> "B"
      [] c = "c" -> "C"
      [] OTHER -> c

\* string_modifier(s, toupper)
string_modifier(s) == [i \in 1..Len(s) |-> toupper(s[i])]

Chars == {"a", "b", "c", "A", "B", "C", "S", "T"}

\* The second loop of count_common_letters without the decrement.
RECURSIVE CountLoop_NoDecrement(_, _, _, _)
CountLoop_NoDecrement(table, b, i, result) ==
    IF i > Len(b) THEN result
    ELSE CountLoop_NoDecrement(table, b, i + 1,
                               result + (IF table[b[i]] > 0 THEN 1 ELSE 0))

\* count_common_letters(a, b): table[] counts the characters of a; every
\* character of b scores when its count is still positive and decrements it.
RECURSIVE CountLoop(_, _, _, _)
CountLoop(table, b, i, result) ==
    IF i > Len(b) THEN result
    ELSE CountLoop([table EXCEPT ![b[i]] = @ - 1], b, i + 1,
                   result + (IF table[b[i]] > 0 THEN 1 ELSE 0))

\* The number of different characters that a and b share.
count_common_letters_Distinct(a, b) ==
    Cardinality({c \in Chars : (\E i \in 1..Len(a) : a[i] = c)
                                /\ (\E i \in 1..Len(b) : b[i] = c)})

count_common_letters(a, b) ==
    LET table == [c \in Chars |-> Cardinality({i \in 1..Len(a) : a[i] = c})]
    IN CountLoop(table, b, 1, 0)

(* ------------------------------ variables ------------------------------ *)
VARIABLES
    file_ok,            \* whether std::ifstream opens dictionary_path
    tokens,             \* the whitespace separated tokens of the file
    sorted_dictionary,  \* Game::sorted_dictionary
    n_panels, n_rows, n_columns, n_words, attempts_max,
    attempts,           \* Game::attempts
    position,           \* Game::position
    solution,           \* Game::solution
    words,              \* Game::words
    state,              \* Game::state
    selection,          \* local of initialize
    total_words,        \* local of initialize
    round,              \* local of initialize
    dictionary,         \* the group initialize chose: its index in
                        \* sorted_dictionary, 0 for nullptr
    iterations,         \* iterations of the placement loop run so far by
                        \* the initialize in progress
    probe,              \* the last conversion between grid and screen
                        \* locations that was traced: its arguments and results
    curses,             \* the display: "off" before initscr(), "on" after
                        \* it, "ended" after endwin()
    rendered,           \* whether render() was ever called
    ch,                 \* the key run() is processing, "none" inside getch()
    clicked,            \* result of parse_mouse_position in parse_input
    render_ret,         \* value returned by the last render()
    init_ret,           \* value returned by initialize(), "none" before
    run_ret,            \* value returned by run(), "none" before
    pc                  \* position of main()

config == <<file_ok, tokens, n_panels, n_rows, n_columns, n_words, attempts_max>>
vars == <<file_ok, tokens, sorted_dictionary, n_panels, n_rows, n_columns,
          n_words, attempts_max, attempts, position, solution, words, state,
          selection, total_words, round, dictionary, iterations, probe, curses,
          rendered, ch, clicked, render_ret, init_ret, run_ret, pc>>

(* -------------------------------- Word --------------------------------- *)
\* Word::Word(_panel, _start, _string)
Word(panel, start, string) ==
    [panel |-> panel, start |-> start, end |-> Add(start, Len(string)),
     string |-> string, coordinates |-> <<>>]

\* reset that clears the coordinates only.
reset_CoordinatesOnly(w) == [w EXCEPT !.coordinates = <<>>]

\* Word::reset
reset(w) == [w EXCEPT !.panel = 0, !.start = 0, !.end = 0, !.coordinates = <<>>]

\* Word::operator==
WordEq(a, b) == a.string = b.string

\* overlap with the half-open test: words that only touch do not overlap.
overlap_HalfOpen(w, rhs) == (w.start < rhs.end) /\ (rhs.start < w.end)

\* Word::overlap(const Word &)
overlap(w, rhs) == (w.start <= rhs.end) /\ (rhs.start <= w.end)

\* Word::overlap(const std::vector<Word> &)
overlap_any(w, ws) == \E i \in 1..Len(ws) : overlap(w, ws[i])

\* is_selected that takes the offset end for one of the word.
is_selected_ClosedEnd(w, c, p) == (w.panel = c) /\ (w.start <= p) /\ (p <= w.end)

\* Word::is_selected
is_selected(w, c, p) == (w.panel = c) /\ (w.start <= p) /\ (p < w.end)

(* ------------------------- coordinate mapping -------------------------- *)
GameLocation(panel, column, row) == [panel |-> panel, column |-> column, row |-> row]
ScreenLocation(x, y) == [x |-> x, y |-> y]

\* to_screen_location with a gutter of one column between the panels.
to_screen_location_NarrowGutter(loc, ncols) ==
    ScreenLocation(
        Add(Add(Mul(ADDRESS_LEN + 1, Add(loc.panel, 1)),
                Mul(Add(1, ncols), loc.panel)), loc.column),
        Add(HEADER_LEN, loc.row))

\* Game::to_screen_location
to_screen_location(loc, ncols) ==
    ScreenLocation(
        Add(Add(Mul(ADDRESS_LEN + 1, Add(loc.panel, 1)),
                Mul(Add(2, ncols), loc.panel)), loc.column),
        Add(HEADER_LEN, loc.row))

\* to_game_location whose column takes the last cell of the address label
\* for the first of the panel.
to_game_location_LabelCell(loc, ncols) ==
    LET k == Add(Add(ADDRESS_LEN + 1, ncols), 2)
    IN GameLocation(Sub(Sub(loc.x, ADDRESS_LEN), 1) \div k,
                    Sub(loc.x % k, ADDRESS_LEN),
                    Sub(loc.y, HEADER_LEN))

\* Game::to_game_location
to_game_location(loc, ncols) ==
    LET k == Add(Add(ADDRESS_LEN + 1, ncols), 2)
    IN GameLocation(Sub(Sub(loc.x, ADDRESS_LEN), 1) \div k,
                    Sub(Sub(loc.x % k, ADDRESS_LEN), 1),
                    Sub(loc.y, HEADER_LEN))

\* linear_to_game_location with row and column exchanged.
linear_to_game_location_Swapped(panel, p, ncols) ==
    GameLocation(panel, p \div ncols, p % ncols)

\* Game::linear_to_game_location
linear_to_game_location(panel, p, ncols) ==
    GameLocation(panel, p % ncols, p \div ncols)

\* Game::linear_to_screen_location
linear_to_screen_location(panel, p, ncols) ==
    to_screen_location(linear_to_game_location(panel, p, ncols), ncols)

(* ------------------------------ dictionary ----------------------------- *)
\* The group of length i also takes the longer words.
GroupWords_Longer(toks, i) ==
    LET modified == [j \in 1..Len(toks) |-> string_modifier(toks[j])]
        fits(w) == ~(Len(w) >= NumGroups) /\ Len(w) >= i
    IN SelectSeq(modified, fits)

\* The words of the group of length i, in file order (load_dictionary, the
\* reading loop): tokens are upper-cased, tokens of NumGroups or more
\* characters are skipped.
GroupWords(toks, i) ==
    LET modified == [j \in 1..Len(toks) |-> string_modifier(toks[j])]
        fits(w) == ~(Len(w) >= NumGroups) /\ Len(w) = i
    IN SelectSeq(modified, fits)

\* load_dictionary erasing only the groups without a word.
load_dictionary_DropsEmpty(ok, toks, nwords, old) ==
    IF ~ok THEN [ret |-> FALSE, sorted_dictionary |-> old]
    ELSE
      LET groups == [i \in 1..NumGroups |->
                        [length |-> i - 1, words |-> GroupWords(toks, i - 1)]]
          total_groups == Len(groups)
          erased(g) == Len(g.words) <= 0
          keep(g) == ~erased(g)
          kept == SelectSeq(groups, keep)
          removed_groups == total_groups - Len(kept)
      IN [ret |-> ~(removed_groups = total_groups), sorted_dictionary |-> kept]

\* load_dictionary keeping the groups of exactly 2 * n_words words.
load_dictionary_KeepsEqual(ok, toks, nwords, old) ==
    IF ~ok THEN [ret |-> FALSE, sorted_dictionary |-> old]
    ELSE
      LET groups == [i \in 1..NumGroups |->
                        [length |-> i - 1, words |-> GroupWords(toks, i - 1)]]
          total_groups == Len(groups)
          erased(g) == Len(g.words) < Mul(2, nwords)
          keep(g) == ~erased(g)
          kept == SelectSeq(groups, keep)
          removed_groups == total_groups - Len(kept)
      IN [ret |-> ~(removed_groups = total_groups), sorted_dictionary |-> kept]

\* Game::load_dictionary: the value returned and the sorted_dictionary left.
load_dictionary(ok, toks, nwords, old) ==
    IF ~ok THEN [ret |-> FALSE, sorted_dictionary |-> old]
    ELSE
      LET groups == [i \in 1..NumGroups |->
                        [length |-> i - 1, words |-> GroupWords(toks, i - 1)]]
          total_groups == Len(groups)
          erased(g) == Len(g.words) <= Mul(2, nwords)
          keep(g) == ~erased(g)
          kept == SelectSeq(groups, keep)
          removed_groups == total_groups - Len(kept)
      IN [ret |-> ~(removed_groups = total_groups), sorted_dictionary |-> kept]

(* ------------------------------ placement ------------------------------ *)
\* The coordinates pushed by find_unoccupied_space_for_word on success.
Coordinates(w, ncols) ==
    [i \in 1..Len(w.string) |->
        linear_to_screen_location(w.panel, Add(w.start, i - 1), ncols)]

\* A draw whose end is one past start + length.
Drawn_LongEnd(w, panel, start) ==
    [w EXCEPT !.panel = panel, !.start = start,
              !.end = Add(Add(start, Len(w.string)), 1)]

\* One draw of find_unoccupied_space_for_word: panel, start and end are set.
Drawn(w, panel, start) ==
    [w EXCEPT !.panel = panel, !.start = start, !.end = Add(start, Len(w.string))]

\* find_unoccupied_space_for_word with one round more than InnerRounds.
RECURSIVE find_unoccupied_space_for_word_OneMore(_, _, _, _, _, _)
find_unoccupied_space_for_word_OneMore(w, r, ws, np, nr, nc) ==
    IF ~(r <= InnerRounds) THEN {[ret |-> FALSE, word |-> reset(w), draws |-> r]}
    ELSE
      LET draws == {Drawn(w, p, s) : p \in 0..Sub(np, 1),
                                     s \in 0..Sub(Mul(nr, nc), Len(w.string))}
          free == {d \in draws : ~overlap_any(d, ws)}
      IN {[ret |-> TRUE, word |-> [d EXCEPT !.coordinates = Coordinates(d, nc)],
           draws |-> r + 1] : d \in free}
         \cup (IF draws \ free # {}
               THEN find_unoccupied_space_for_word_OneMore(w, r + 1, ws, np, nr, nc)
               ELSE {})

\* Game::find_unoccupied_space_for_word, from round r on: the set of the
\* results the random draws can produce, each with the number of draws made.
\* A draw that does not overlap ends the loop with success; a draw that
\* overlaps goes on to the next round; after InnerRounds rounds the word is
\* reset and the result is false.
RECURSIVE find_unoccupied_space_for_word(_, _, _, _, _, _)
find_unoccupied_space_for_word(w, r, ws, np, nr, nc) ==
    IF ~(r < InnerRounds) THEN {[ret |-> FALSE, word |-> reset(w), draws |-> r]}
    ELSE
      LET draws == {Drawn(w, p, s) : p \in 0..Sub(np, 1),
                                     s \in 0..Sub(Mul(nr, nc), Len(w.string))}
          free == {d \in draws : ~overlap_any(d, ws)}
      IN {[ret |-> TRUE, word |-> [d EXCEPT !.coordinates = Coordinates(d, nc)],
           draws |-> r + 1] : d \in free}
         \cup (IF draws \ free # {}
               THEN find_unoccupied_space_for_word(w, r + 1, ws, np, nr, nc)
               ELSE {})

\* The placement loop without the test for an already selected word.
NotYetSelected_NoTest(ws, w) == TRUE

\* std::find(words.begin(), words.end(), word) == words.end()
NotYetSelected(ws, w) == ~\E i \in 1..Len(ws) : WordEq(ws[i], w)

\* An erase of the whole range from the beginning up to index.
Erase_UpTo(seq, index) == SubSeq(seq, index + 2, Len(seq))

\* selection.erase(selection.begin() + index)
Erase(seq, index) ==
    [i \in 1..(Len(seq) - 1) |-> IF i <= index THEN seq[i] ELSE seq[i + 1]]

(* ------------------------------- render -------------------------------- *)
\* Game::find_selected_word: index of the first word under the cursor, 0 for
\* nullptr.
find_selected_word(ws, pos, nc) ==
    LET hits == {i \in 1..Len(ws) :
                    is_selected(ws[i], pos.panel, Add(Mul(pos.row, nc), pos.column))}
    IN IF hits = {} THEN 0 ELSE CHOOSE i \in hits : \A j \in hits : i <= j

\* mvaddch(y, x, c) succeeds when the cell is inside the window.
mvaddch_ok(loc) ==
    /\ 0 <= ToInt(loc.y) /\ ToInt(loc.y) < ScreenRows
    /\ 0 <= ToInt(loc.x) /\ ToInt(loc.x) < ScreenCols

\* The drawing part of render (lines 1158-1279): every character of every
\* word is put on the screen, then state becomes Running.
Draw(ws, st, att) ==
    IF \A i \in 1..Len(ws) : \A j \in 1..Len(ws[i].string) :
           mvaddch_ok(ws[i].coordinates[j])
    THEN [ret |-> TRUE, state |-> "Running", attempts |-> att]
    ELSE [ret |-> FALSE, state |-> st, attempts |-> att]

\* Every state counts as input-triggered.
Pressed_Always(st) == TRUE

\* Whether state is one of the two input-triggered states.
Pressed(st) == (st = "MousePressed") \/ (st = "EnterPressed")

\* render with a wrong guess that costs two attempts.
render_DoubleCharge(ws, pos, st, att, sol, nc) ==
    LET selected_word == find_selected_word(ws, pos, nc)
    IN IF selected_word = 0 /\ Pressed(st)
       THEN [ret |-> FALSE, state |-> st, attempts |-> att]
       ELSE IF selected_word # 0 /\ Pressed(st)
       THEN IF ws[selected_word].string = sol
            THEN [ret |-> TRUE, state |-> "Won", attempts |-> att]
            ELSE IF att - 2 <= 0
            THEN [ret |-> TRUE, state |-> "Lost", attempts |-> 0]
            ELSE Draw(ws, st, att - 2)
       ELSE Draw(ws, st, att)

\* render with the attempt charged before the guess is compared.
render_ChargeFirst(ws, pos, st, att, sol, nc) ==
    LET selected_word == find_selected_word(ws, pos, nc)
    IN IF selected_word = 0 /\ Pressed(st)
       THEN [ret |-> FALSE, state |-> st, attempts |-> att]
       ELSE IF selected_word # 0 /\ Pressed(st)
       THEN IF att - 1 = 0
            THEN [ret |-> TRUE, state |-> "Lost", attempts |-> att - 1]
            ELSE IF ws[selected_word].string = sol
            THEN [ret |-> TRUE, state |-> "Won", attempts |-> att - 1]
            ELSE Draw(ws, st, att - 1)
       ELSE Draw(ws, st, att)

\* render with the lost test off by one: the last attempt is never played.
render_LostEarly(ws, pos, st, att, sol, nc) ==
    LET selected_word == find_selected_word(ws, pos, nc)
    IN IF selected_word = 0 /\ Pressed(st)
       THEN [ret |-> FALSE, state |-> st, attempts |-> att]
       ELSE IF selected_word # 0 /\ Pressed(st)
       THEN IF ws[selected_word].string = sol
            THEN [ret |-> TRUE, state |-> "Won", attempts |-> att]
            ELSE IF att - 1 <= 1
            THEN [ret |-> TRUE, state |-> "Lost", attempts |-> att - 1]
            ELSE Draw(ws, st, att - 1)
       ELSE Draw(ws, st, att)

\* render with an attempt charged for an activation that hits no word.
render_ChargeMiss(ws, pos, st, att, sol, nc) ==
    LET selected_word == find_selected_word(ws, pos, nc)
    IN IF selected_word = 0 /\ Pressed(st)
       THEN [ret |-> FALSE, state |-> st, attempts |-> att - 1]
       ELSE IF selected_word # 0 /\ Pressed(st)
       THEN IF ws[selected_word].string = sol
            THEN [ret |-> TRUE, state |-> "Won", attempts |-> att]
            ELSE IF att - 1 = 0
            THEN [ret |-> TRUE, state |-> "Lost", attempts |-> att - 1]
            ELSE Draw(ws, st, att - 1)
       ELSE Draw(ws, st, att)

\* Game::render: the value returned, and state and attempts afterwards.
render(ws, pos, st, att, sol, nc) ==
    LET selected_word == find_selected_word(ws, pos, nc)
    IN IF selected_word = 0 /\ Pressed(st)
       THEN [ret |-> FALSE, state |-> st, attempts |-> att]
       ELSE IF selected_word # 0 /\ Pressed(st)
       THEN IF ws[selected_word].string = sol
            THEN [ret |-> TRUE, state |-> "Won", attempts |-> att]
            ELSE IF att - 1 = 0
            THEN [ret |-> TRUE, state |-> "Lost", attempts |-> att - 1]
            ELSE Draw(ws, st, att - 1)
       ELSE Draw(ws, st, att)

(* -------------------------------- input -------------------------------- *)
\* parse_mouse_position writing the converted location through the
\* reference before the range is checked.
parse_mouse_position_Stored(key, ev, loc, np, nr, nc) ==
    IF key = "KEY_MOUSE" /\ ev.ok
    THEN LET new_location == to_game_location(ScreenLocation(ev.x, ev.y), nc)
         IN IF (new_location.panel < np) /\ (new_location.row < nr)
               /\ (new_location.column < nc)
            THEN [ret |-> TRUE, location |-> new_location]
            ELSE [ret |-> FALSE, location |-> new_location]
    ELSE [ret |-> FALSE, location |-> loc]

\* parse_mouse_position taking the column n_columns for one of the panel.
parse_mouse_position_LaxColumn(key, ev, loc, np, nr, nc) ==
    IF key = "KEY_MOUSE" /\ ev.ok
    THEN LET new_location == to_game_location(ScreenLocation(ev.x, ev.y), nc)
         IN IF (new_location.panel < np) /\ (new_location.row < nr)
               /\ (new_location.column <= nc)
            THEN [ret |-> TRUE, location |-> new_location]
            ELSE [ret |-> FALSE, location |-> loc]
    ELSE [ret |-> FALSE, location |-> loc]

\* Game::parse_mouse_position: the value returned and the location left.
parse_mouse_position(key, ev, loc, np, nr, nc) ==
    IF key = "KEY_MOUSE" /\ ev.ok
    THEN LET new_location == to_game_location(ScreenLocation(ev.x, ev.y), nc)
         IN IF (new_location.panel < np) /\ (new_location.row < nr)
               /\ (new_location.column < nc)
            THEN [ret |-> TRUE, location |-> new_location]
            ELSE [ret |-> FALSE, location |-> loc]
    ELSE [ret |-> FALSE, location |-> loc]

\* parse_key_position moving up without the test of the row.
parse_key_position_NoClamp(key, loc, np, nr, nc) ==
    IF key = "KEY_UP"
    THEN [ret |-> TRUE, location |-> [loc EXCEPT !.row = Sub(@, 1)]]
    ELSE IF (key = "KEY_DOWN") /\ (loc.row < Sub(nr, 1))
    THEN [ret |-> TRUE, location |-> [loc EXCEPT !.row = Add(@, 1)]]
    ELSE IF key = "KEY_LEFT"
    THEN IF loc.column > 0
         THEN [ret |-> TRUE, location |-> [loc EXCEPT !.column = Sub(@, 1)]]
         ELSE IF loc.panel > 0
         THEN [ret |-> TRUE,
               location |-> [loc EXCEPT !.column = Sub(nc, 1), !.panel = Sub(@, 1)]]
         ELSE [ret |-> TRUE, location |-> loc]
    ELSE IF key = "KEY_RIGHT"
    THEN IF loc.column < Sub(nc, 1)
         THEN [ret |-> TRUE, location |-> [loc EXCEPT !.column = Add(@, 1)]]
         ELSE IF loc.panel < Sub(np, 1)
         THEN [ret |-> TRUE,
               location |-> [loc EXCEPT !.column = 0, !.panel = Add(@, 1)]]
         ELSE [ret |-> TRUE, location |-> loc]
    ELSE [ret |-> FALSE, location |-> loc]

\* parse_key_position going left from the first column of a panel without
\* changing the panel.
parse_key_position_SamePanel(key, loc, np, nr, nc) ==
    IF (key = "KEY_UP") /\ (loc.row > 0)
    THEN [ret |-> TRUE, location |-> [loc EXCEPT !.row = Sub(@, 1)]]
    ELSE IF (key = "KEY_DOWN") /\ (loc.row < Sub(nr, 1))
    THEN [ret |-> TRUE, location |-> [loc EXCEPT !.row = Add(@, 1)]]
    ELSE IF key = "KEY_LEFT"
    THEN IF loc.column > 0
         THEN [ret |-> TRUE, location |-> [loc EXCEPT !.column = Sub(@, 1)]]
         ELSE IF loc.panel > 0
         THEN [ret |-> TRUE,
               location |-> [loc EXCEPT !.column = Sub(nc, 1)]]
         ELSE [ret |-> TRUE, location |-> loc]
    ELSE IF key = "KEY_RIGHT"
    THEN IF loc.column < Sub(nc, 1)
         THEN [ret |-> TRUE, location |-> [loc EXCEPT !.column = Add(@, 1)]]
         ELSE IF loc.panel < Sub(np, 1)
         THEN [ret |-> TRUE,
               location |-> [loc EXCEPT !.column = 0, !.panel = Add(@, 1)]]
         ELSE [ret |-> TRUE, location |-> loc]
    ELSE [ret |-> FALSE, location |-> loc]

\* Game::parse_key_position: the value returned and the location left.
parse_key_position(key, loc, np, nr, nc) ==
    IF (key = "KEY_UP") /\ (loc.row > 0)
    THEN [ret |-> TRUE, location |-> [loc EXCEPT !.row = Sub(@, 1)]]
    ELSE IF (key = "KEY_DOWN") /\ (loc.row < Sub(nr, 1))
    THEN [ret |-> TRUE, location |-> [loc EXCEPT !.row = Add(@, 1)]]
    ELSE IF key = "KEY_LEFT"
    THEN IF loc.column > 0
         THEN [ret |-> TRUE, location |-> [loc EXCEPT !.column = Sub(@, 1)]]
         ELSE IF loc.panel > 0
         THEN [ret |-> TRUE,
               location |-> [loc EXCEPT !.column = Sub(nc, 1), !.panel = Sub(@, 1)]]
         ELSE [ret |-> TRUE, location |-> loc]
    ELSE IF key = "KEY_RIGHT"
    THEN IF loc.column < Sub(nc, 1)
         THEN [ret |-> TRUE, location |-> [loc EXCEPT !.column = Add(@, 1)]]
         ELSE IF loc.panel < Sub(np, 1)
         THEN [ret |-> TRUE,
               location |-> [loc EXCEPT !.column = 0, !.panel = Add(@, 1)]]
         ELSE [ret |-> TRUE, location |-> loc]
    ELSE [ret |-> FALSE, location |-> loc]

\* parse_input setting state back to Running when a key moved the cursor.
parse_input_KeyResets(key, ev, pos, st, np, nr, nc) ==
    LET m == parse_mouse_position(key, ev, pos, np, nr, nc)
        k == parse_key_position(key, m.location, np, nr, nc)
    IN IF m.ret
       THEN [position |-> m.location, state |-> "MousePressed", clicked |-> TRUE]
       ELSE IF ~k.ret
       THEN [position |-> k.location,
             state |-> IF key = "ENTER" THEN "EnterPressed" ELSE st,
             clicked |-> FALSE]
       ELSE [position |-> k.location, state |-> "Running", clicked |-> FALSE]

\* Game::parse_input: position and state afterwards, and whether the mouse
\* branch was taken.
parse_input(key, ev, pos, st, np, nr, nc) ==
    LET m == parse_mouse_position(key, ev, pos, np, nr, nc)
        k == parse_key_position(key, m.location, np, nr, nc)
    IN IF m.ret
       THEN [position |-> m.location, state |-> "MousePressed", clicked |-> TRUE]
       ELSE IF ~k.ret
       THEN [position |-> k.location,
             state |-> IF key = "ENTER" THEN "EnterPressed" ELSE st,
             clicked |-> FALSE]
       ELSE [position |-> k.location, state |-> st, clicked |-> FALSE]

(* ------------------------------- inputs -------------------------------- *)
\* The dictionary files of the model: one with a group of one-letter words
\* (with repetitions) and a group of two-letter words, one too poor for any
\* number of words, one without a word.
Dictionaries ==
    { << <<"a">>, <<"b">>, <<"A">>, <<"b">>, <<"a">>,
         <<"a", "b">>, <<"b", "a">>, <<"A", "B">> >>,
      << <<"a", "b">>, <<"b", "a">> >>,
      << >> }

\* What getch() can return.
Keys == {"KEY_UP", "KEY_DOWN", "KEY_LEFT", "KEY_RIGHT", "ENTER", "OTHER"}

\* What getmouse() can deliver: the cell of the window that was clicked, or
\* a failure.
MouseEvents ==
    {[ok |-> TRUE, x |-> x, y |-> y] : x \in 0..(ScreenCols - 1), y \in 0..(ScreenRows - 1)}
    \cup {[ok |-> FALSE, x |-> 0, y |-> 0]}

(* ----------------------------- construction ---------------------------- *)
\* No conversion was traced.
NoProbe == [op |-> "none"]

\* Game::Game, for every configuration and dictionary file of the model.
Init ==
    /\ file_ok \in BOOLEAN
    /\ tokens \in Dictionaries
    /\ \E g \in Grids : n_panels = g[1] /\ n_rows = g[2] /\ n_columns = g[3]
    /\ n_words \in 1..MaxWords
    /\ attempts_max \in 1..MaxAttempts
    /\ sorted_dictionary = <<>>
    /\ attempts = attempts_max
    /\ position = GameLocation(0, 0, 0)
    /\ solution = <<>>
    /\ words = <<>>
    /\ state = "Running"
    /\ selection = <<>>
    /\ total_words = 0
    /\ round = 0
    /\ dictionary = 0
    /\ iterations = 0
    /\ probe = NoProbe
    /\ curses = "off"
    /\ rendered = FALSE
    /\ ch = "none"
    /\ clicked = FALSE
    /\ render_ret = TRUE
    /\ init_ret = "none"
    /\ run_ret = "none"
    /\ pc = "initialize"

(* ------------------------------ initialize ----------------------------- *)
\* initialize() returns false and main() goes on to run() all the same.
InitializeFails_RunAnyway ==
    /\ init_ret' = "false"
    /\ pc' = "getch"

\* initialize() returns false.
InitializeFails ==
    /\ init_ret' = "false"
    /\ pc' = "exit"

\* The locals of initialize end with the call.
LocalsGone ==
    /\ selection' = <<>>
    /\ total_words' = 0
    /\ round' = 0
    /\ iterations' = 0

\* total_words one short of the std::min.
TotalWords_OneLess(nwords, sel) ==
    (IF ToInt(nwords) <= ToInt(Len(sel)) THEN ToInt(nwords) ELSE ToInt(Len(sel))) - 1

\* std::min(static_cast<int>(n_words), static_cast<int>(selection.size()))
TotalWords(nwords, sel) ==
    IF ToInt(nwords) <= ToInt(Len(sel)) THEN ToInt(nwords) ELSE ToInt(Len(sel))

\* initialize, lines 929-969: the dictionary is loaded, a group is chosen.
InitializeLoad ==
    /\ pc = "initialize"
    /\ LET r == load_dictionary(file_ok, tokens, n_words, sorted_dictionary)
       IN /\ sorted_dictionary' = r.sorted_dictionary
          /\ IF ~r.ret \/ r.sorted_dictionary = <<>>
             THEN /\ InitializeFails
                  /\ UNCHANGED <<selection, total_words, round, dictionary>>
             ELSE \E g \in 1..Len(r.sorted_dictionary) :
                    LET group == r.sorted_dictionary[g]
                    IN /\ dictionary' = g
                       /\ IF group.words = <<>>
                             \/ TotalWords(n_words, group.words) = 0
                          THEN /\ InitializeFails
                               /\ UNCHANGED <<selection, total_words, round>>
                          ELSE /\ selection' = group.words
                               /\ total_words' = TotalWords(n_words, group.words)
                               /\ round' = OuterRounds
                               /\ pc' = "place"
                               /\ UNCHANGED init_ret
    /\ UNCHANGED <<probe, curses, rendered, config, attempts, position,
                   solution, words, state, ch,
                   clicked, render_ret, run_ret, iterations>>

\* The placement loop without the continue: every iteration spends a round.
RoundLeft_NoContinue(r, placed) == r - 1

\* round at the end of an iteration: the continue after a placement skips
\* the round-- at the end of the body.
RoundLeft(r, placed) == IF placed THEN r ELSE r - 1

\* initialize, lines 972-992: one iteration of the placement loop.
InitializePlace ==
    /\ pc = "place"
    /\ total_words # 0 /\ round # 0
    /\ \E index \in 0..Sub(Len(selection), 1) :
         LET string == selection[index + 1]
             word == Word(0, 0, string)
         IN \/ /\ NotYetSelected(words, word)
               /\ \E f \in find_unoccupied_space_for_word(word, 0, words,
                                                         n_panels, n_rows, n_columns) :
                    IF f.ret
                    THEN /\ total_words' = total_words - 1
                         /\ words' = Append(words, f.word)
                         /\ selection' = Erase(selection, index)
                         /\ round' = RoundLeft(round, TRUE)
                    ELSE /\ round' = RoundLeft(round, FALSE)
                         /\ UNCHANGED <<total_words, words, selection>>
            \/ /\ ~NotYetSelected(words, word)
               /\ round' = RoundLeft(round, FALSE)
               /\ UNCHANGED <<total_words, words, selection>>
    /\ iterations' = iterations + 1
    /\ UNCHANGED <<probe, curses, rendered, config, sorted_dictionary,
                   attempts, position, solution,
                   state, ch, clicked, render_ret, init_ret, run_ret, pc,
                   dictionary>>

\* The solution without its last character.
ChooseSolution_Truncated(ws, solution_idx) ==
    SubSeq(ws[solution_idx + 1].string, 1, Len(ws[solution_idx + 1].string) - 1)

\* solution = words[solution_idx].string
ChooseSolution(ws, solution_idx) == ws[solution_idx + 1].string

\* initialize, lines 995-1101: the checks after the loop, the solution, the
\* first render.
InitializeFinish ==
    /\ pc = "place"
    /\ ~(total_words # 0 /\ round # 0)
    /\ IF round = 0 \/ words = <<>>
       THEN /\ InitializeFails
            /\ UNCHANGED <<solution, state, attempts, render_ret, curses, rendered>>
       ELSE \E solution_idx \in 0..Sub(Len(words), 1) :
              LET sol == ChooseSolution(words, solution_idx)
                  r == render(words, position, state, attempts, sol, n_columns)
              IN /\ solution' = sol
                 /\ state' = r.state
                 /\ attempts' = r.attempts
                 /\ render_ret' = r.ret
                 /\ rendered' = TRUE
                 /\ curses' = IF r.ret THEN "on" ELSE "ended"
                 /\ init_ret' = IF r.ret THEN "true" ELSE "false"
                 /\ pc' = IF r.ret THEN "getch" ELSE "exit"
    /\ LocalsGone
    /\ UNCHANGED <<probe, config, sorted_dictionary, position, words, ch, clicked,
                   run_ret, dictionary>>

(* --------------------------------- run --------------------------------- *)
\* run(): getch() returns 'q'.
RunQuit ==
    /\ pc = "getch"
    /\ ch' = "q"
    /\ run_ret' = "false"
    /\ pc' = "exit"
    /\ UNCHANGED <<probe, curses, rendered, config, sorted_dictionary,
                   attempts, position, solution,
                   words, state, selection, total_words, round, clicked,
                   render_ret, init_ret, dictionary, iterations>>

\* run(): getch() returns key, parse_input(key) runs.
Parse(key, ev) ==
    LET r == parse_input(key, ev, position, state, n_panels, n_rows, n_columns)
    IN /\ ch' = key
       /\ position' = r.position
       /\ state' = r.state
       /\ clicked' = r.clicked
       /\ pc' = "render"
       /\ UNCHANGED <<probe, curses, rendered, config, sorted_dictionary,
                      attempts, solution, words,
                      selection, total_words, round, render_ret, init_ret,
                      run_ret, dictionary, iterations>>

RunKey ==
    /\ pc = "getch"
    /\ \E key \in Keys : Parse(key, [ok |-> FALSE, x |-> 0, y |-> 0])

RunMouse ==
    /\ pc = "getch"
    /\ \E ev \in MouseEvents : Parse("KEY_MOUSE", ev)

\* The loop of run() without the test for Lost.
LoopGoesOn_LostIgnored(st) == ~(st = "Won")

\* run(), lines 1120-1125: whether the loop goes on after render().
LoopGoesOn(st) == ~(st = "Won") /\ ~(st = "Lost")

\* The cycle of run() with a wrongly guessed word taken off the grid.
RunRender_GuessRemoved ==
    /\ pc = "render"
    /\ LET r == render(words, position, state, attempts, solution, n_columns)
           selected_word == find_selected_word(words, position, n_columns)
       IN /\ state' = r.state
          /\ attempts' = r.attempts
          /\ render_ret' = r.ret
          /\ clicked' = FALSE
          /\ ch' = "none"
          /\ words' = IF selected_word # 0 /\ Pressed(state)
                         /\ words[selected_word].string # solution
                      THEN Erase(words, selected_word - 1)
                      ELSE words
          /\ IF LoopGoesOn(r.state)
             THEN /\ pc' = "getch"
                  /\ UNCHANGED run_ret
             ELSE /\ run_ret' = IF r.state = "Won" THEN "true" ELSE "false"
                  /\ pc' = "exit"
    /\ rendered' = TRUE
    /\ UNCHANGED <<probe, curses, config, sorted_dictionary, position, solution,
                   selection, total_words, round, init_ret, dictionary,
                   iterations>>

\* run(): render(), then the test of state.
RunRender ==
    /\ pc = "render"
    /\ LET r == render(words, position, state, attempts, solution, n_columns)
       IN /\ state' = r.state
          /\ attempts' = r.attempts
          /\ render_ret' = r.ret
          /\ clicked' = FALSE
          /\ ch' = "none"
          /\ IF LoopGoesOn(r.state)
             THEN /\ pc' = "getch"
                  /\ UNCHANGED run_ret
             ELSE /\ run_ret' = IF r.state = "Won" THEN "true" ELSE "false"
                  /\ pc' = "exit"
    /\ rendered' = TRUE
    /\ UNCHANGED <<probe, curses, config, sorted_dictionary, position, solution,
                   words, selection, total_words, round, init_ret, dictionary,
                   iterations>>

Next ==
    \/ InitializeLoad
    \/ InitializePlace
    \/ InitializeFinish
    \/ RunKey
    \/ RunMouse
    \/ RunQuit
    \/ RunRender

Spec == Init /\ [][Next]_vars

(* =================== the coordinate conversions alone ================== *)
\* The part of the terminal window the pointer is tried on: the largest
\* grid, the address label of one more panel and two more lines.
ProbeCols == (ADDRESS_LEN + 1 + MaxColumns + 2) * MaxPanels + ADDRESS_LEN + 1
ProbeRows == HEADER_LEN + MaxRows + 2

\* The cells of the grid of the session.
ValidLocations ==
    {GameLocation(p, c, r) : p \in 0..(n_panels - 1), c \in 0..(n_columns - 1),
                             r \in 0..(n_rows - 1)}

\* Game::Game for every grid up to MaxPanels x MaxRows x MaxColumns; the
\* other arguments do not enter the conversions and are fixed.
InitMap ==
    /\ file_ok = TRUE
    /\ tokens = <<>>
    /\ n_panels \in 1..MaxPanels
    /\ n_rows \in 1..MaxRows
    /\ n_columns \in 1..MaxColumns
    /\ n_words = 1
    /\ attempts_max = 1
    /\ sorted_dictionary = <<>>
    /\ attempts = attempts_max
    /\ position = GameLocation(0, 0, 0)
    /\ solution = <<>>
    /\ words = <<>>
    /\ state = "Running"
    /\ selection = <<>>
    /\ total_words = 0
    /\ round = 0
    /\ dictionary = 0
    /\ iterations = 0
    /\ probe = NoProbe
    /\ curses = "off"
    /\ rendered = FALSE
    /\ ch = "none"
    /\ clicked = FALSE
    /\ render_ret = FALSE
    /\ init_ret = "none"
    /\ run_ret = "none"
    /\ pc = "initialize"

\* move_cursor_to(GameLocation): to_screen_location is applied to a cell of
\* the grid.
ToScreen ==
    /\ probe = NoProbe
    /\ \E location \in ValidLocations :
         probe' = [op |-> "to_screen_location", location |-> location,
                   coord |-> to_screen_location(location, n_columns)]
    /\ UNCHANGED <<curses, rendered, config, sorted_dictionary, attempts,
                   position, solution,
                   words, state, selection, total_words, round, dictionary,
                   iterations, ch, clicked, render_ret, init_ret, run_ret, pc>>

\* The pointer is clicked where the cursor was put: parse_mouse_position
\* applies to_game_location to the screen location of the cell.
ToScreenAndBack ==
    /\ probe.op = "to_screen_location"
    /\ probe' = [op |-> "round_trip", location |-> probe.location,
                 coord |-> probe.coord,
                 new_location |-> to_game_location(probe.coord, n_columns)]
    /\ UNCHANGED <<curses, rendered, config, sorted_dictionary, attempts,
                   position, solution,
                   words, state, selection, total_words, round, dictionary,
                   iterations, ch, clicked, render_ret, init_ret, run_ret, pc>>

\* The pointer is clicked anywhere: parse_mouse_position applies
\* to_game_location to the screen location and checks the range.
ToGame ==
    /\ probe = NoProbe
    /\ \E x \in 0..(ProbeCols - 1), y \in 0..(ProbeRows - 1) :
         probe' = [op |-> "to_game_location", coord |-> ScreenLocation(x, y),
                   new_location |-> to_game_location(ScreenLocation(x, y), n_columns),
                   ret |-> parse_mouse_position(
                               "KEY_MOUSE", [ok |-> TRUE, x |-> x, y |-> y],
                               GameLocation(0, 0, 0),
                               n_panels, n_rows, n_columns).ret]
    /\ UNCHANGED <<curses, rendered, config, sorted_dictionary, attempts,
                   position, solution,
                   words, state, selection, total_words, round, dictionary,
                   iterations, ch, clicked, render_ret, init_ret, run_ret, pc>>

NextMap ==
    \/ ToScreen
    \/ ToScreenAndBack
    \/ ToGame

SpecMap == InitMap /\ [][NextMap]_vars

(* ======================= the feedback score alone ====================== *)
\* The strings the score is computed on: every string of A and B up to
\* MaxLetters characters, and two words of other letters.
ScoreInputs ==
    UNION {[1..k -> {"A", "B"}] : k \in 0..MaxLetters}
    \cup {<<"C", "A", "T">>, <<"C", "A", "T", "S">>}

\* Game::Game; the grid does not enter the score and is fixed.
InitScore ==
    /\ InitMap
    /\ n_panels = 1 /\ n_rows = 1 /\ n_columns = 1

\* render, lines 1148-1149: count_common_letters is applied to the text of
\* the selected word and to the solution.
Score ==
    /\ probe = NoProbe
    /\ \E a \in ScoreInputs, b \in ScoreInputs :
         probe' = [op |-> "count_common_letters", a |-> a, b |-> b,
                   result |-> count_common_letters(a, b)]
    /\ UNCHANGED <<curses, rendered, config, sorted_dictionary, attempts,
                   position, solution,
                   words, state, selection, total_words, round, dictionary,
                   iterations, ch, clicked, render_ret, init_ret, run_ret, pc>>

NextScore == Score

SpecScore == InitScore /\ [][NextScore]_vars

(* ======================= properties of the game ======================== *)
\* The input of the cycle in progress is an activation: the enter key, or a
\* pointer event that resolved to a cell of the grid.
Activation == (ch = "ENTER") \/ clicked

\* The word under the cursor (0 when there is none).
Selected == find_selected_word(words, position, n_columns)

\* The cursor is on a placed word whose text differs from the solution.
OnWrongWord == Selected # 0 /\ words[Selected].string # solution

\* The cursor is on the placed word whose text is the solution.
OnSolution == Selected # 0 /\ words[Selected].string = solution

\* initialize() has returned true.
Initialized == init_ret = "true"

\* C1: an input that is not an activation (a directional key, an unrecognised
\* key, a pointer event out of bounds) never makes attempts decrease, whatever
\* inputs came before it.
C1_NonActivationKeepsAttempts ==
    [][(pc = "render" /\ ~Activation) => attempts' >= attempts]_vars

\* C2: a wrong activation (an activation evaluated with the cursor on a placed
\* word that is not the solution) decreases attempts by exactly 1, every time.
C2_WrongActivationCostsOne ==
    [][(pc = "render" /\ Activation /\ OnWrongWord) => attempts' = attempts - 1]_vars

\* A wrong word was activated and the session goes on with one attempt less.
C2_Witness ==
    /\ Initialized /\ pc = "getch" /\ state = "Running" /\ render_ret = TRUE
    /\ OnWrongWord /\ attempts = attempts_max - 1

\* C3: an activation with the cursor on the solution, with one attempt or more
\* left, sets state to Won in the same cycle, leaves attempts unchanged and
\* ends run() with true; it never yields Lost.
C3_ActivatingSolutionWins ==
    [][(pc = "render" /\ Activation /\ OnSolution /\ attempts >= 1)
         => (state' = "Won" /\ attempts' = attempts /\ run_ret' = "true" /\ pc' = "exit")]_vars

\* The session was won with exactly the last attempt left.
C3_Witness ==
    /\ state = "Won" /\ run_ret = "true" /\ OnSolution
    /\ attempts = 1 /\ attempts_max > 1

\* A wrong guess was evaluated in this step: attempts went down by one with
\* the cursor on a wrong word.
WrongGuessStep == pc = "render" /\ OnWrongWord /\ attempts' = attempts - 1

C5_PressedNeverSurvivesRender ==
    (Initialized /\ pc \in {"getch", "exit"}) => state \in {"Running", "Won", "Lost"}

\* C6: Won and Lost are terminal: run() has returned, no input is processed
\* and state, attempts and position never change again.
C6_WonLostTerminal ==
    /\ [](state \in {"Won", "Lost"} => pc = "exit")
    /\ [][(state \in {"Won", "Lost"})
            => (state' = state /\ attempts' = attempts /\ position' = position)]_vars

\* The session ended, won or lost, after the cursor was moved.
C6_Witness ==
    /\ state \in {"Won", "Lost"} /\ pc = "exit"
    /\ position # GameLocation(0, 0, 0) /\ run_ret # "none"

\* C7: an activation with no word under the cursor is not swallowed: once
\* render() has returned false the session processes no further input.
C7_InvalidActivationStops ==
    ~(pc = "render" /\ render_ret = FALSE)

(* ===================== properties of the placement ===================== *)
\* C8: two distinct placed words of the same panel never overlap under the
\* closed-interval rule, after every placement step.
C8_NoOverlap ==
    \A i \in 1..Len(words) : \A j \in 1..Len(words) :
        (i # j /\ words[i].panel = words[j].panel)
            => ~(words[i].start <= words[j].end /\ words[j].start <= words[i].end)

\* Two words were placed in the same panel.
C8_Witness ==
    /\ Len(words) = 2 /\ words[1].panel = words[2].panel /\ Initialized

\* C9: no two placed words have the same text, at every point of the
\* placement and afterwards, also when the group repeats words.
C9_UniqueTexts ==
    \A i \in 1..Len(words) : \A j \in 1..Len(words) :
        i # j => words[i].string # words[j].string

\* A word is placed and the pool still holds a copy of its text.
C9_Witness ==
    /\ pc = "place" /\ Len(words) >= 1
    /\ \E i \in 1..Len(selection) : selection[i] = words[1].string

\* C10: when the words of the chosen group are longer than the grid
\* (n_rows * n_columns cells) no word is placed and initialize returns false.
C10_TooSmallGridFails ==
    \A i \in 1..Len(words) : Len(words[i].string) <= n_rows * n_columns

\* C11: the placement phase terminates: the outer loop runs at most
\* words_to_place + 100 iterations (every iteration spends one unit of
\* total_words or of round), an iteration always has a word to draw, and
\* every placement attempt of a word makes at most 20 draws.
C11_PlacementBounded ==
    /\ iterations <= n_words + OuterRounds
    /\ pc = "place" =>
          iterations = (TotalWords(n_words, sorted_dictionary[dictionary].words)
                           - total_words) + (OuterRounds - round)
    /\ (pc = "place" /\ total_words # 0 /\ round # 0) =>
          /\ selection # <<>>
          /\ \A string \in {selection[i] : i \in 1..Len(selection)} :
                NotYetSelected(words, Word(0, 0, string)) =>
                  \A f \in find_unoccupied_space_for_word(
                              Word(0, 0, string), 0, words,
                              n_panels, n_rows, n_columns) :
                      f.draws <= InnerRounds /\ (~f.ret => f.draws = InnerRounds)

\* The loop ended on the spent budget after one word was placed: one
\* iteration that placed and OuterRounds iterations that did not.
C11_Witness ==
    /\ pc = "place" /\ round = 0 /\ Len(words) = 1
    /\ iterations = OuterRounds + 1

\* C12: initialize returns true only with exactly n_words words placed
\* (n_words >= 1); when the loop ends with the round budget at zero or with
\* no word placed, initialize returns false.
C12_SuccessMeansAllPlaced ==
    /\ [](Initialized => (Len(words) = n_words /\ n_words >= 1))
    /\ [][(pc = "place" /\ pc' # "place") =>
            /\ words' = words
            /\ (round = 0 \/ words = <<>>) => init_ret' = "false"]_vars

\* initialize returned true with two words to place, in different panels.
C12_Witness ==
    /\ Initialized /\ n_words = 2 /\ Len(words) = 2
    /\ words[1].panel # words[2].panel

\* C13: once initialize has returned true, in every later state the
\* solution is the text of exactly one placed word.
C13_SolutionIsOnePlacedWord ==
    Initialized =>
        Cardinality({i \in 1..Len(words) : words[i].string = solution}) = 1

\* A session in its input loop whose solution is the second of two words.
C13_Witness ==
    /\ Initialized /\ pc = "render" /\ Len(words) = 2
    /\ solution = words[2].string

\* C14: all placed words, and the solution of a session, have the same
\* length: the length of the one dictionary group chosen for the session.
C14_OneLength ==
    /\ \A i \in 1..Len(words) :
          /\ dictionary # 0
          /\ Len(words[i].string) = sorted_dictionary[dictionary].length
    /\ Initialized => Len(solution) = sorted_dictionary[dictionary].length

\* A session on the group of length 2, while the dictionary of the program
\* also holds words of length 1.
C14_Witness ==
    /\ Initialized /\ dictionary # 0 /\ Len(words) = 1
    /\ sorted_dictionary[dictionary].length = 2
    /\ Len(sorted_dictionary) = 2

(* ================ properties of the coordinate conversions ============== *)
\* C15: for every grid with n_columns >= 1 and every cell g of it,
\* to_game_location(to_screen_location(g)) = g.
C15_RoundTrip ==
    probe.op = "round_trip" => probe.new_location = probe.location

\* The last cell of the last panel of the largest grid went to the screen
\* and back.
C15_Witness ==
    /\ probe.op = "round_trip"
    /\ n_panels = MaxPanels /\ n_rows = MaxRows /\ n_columns = MaxColumns
    /\ probe.location = GameLocation(n_panels - 1, n_columns - 1, n_rows - 1)

\* C16: the range check of parse_mouse_position on to_game_location(s)
\* passes exactly when s is the screen location of a cell of the grid; for
\* the header, the address labels, the gutters and the cells right of or
\* below the grid the subtractions wrap around and the check fails.
C16_RangeCheckIffImage ==
    probe.op = "to_game_location" =>
        (probe.ret <=>
            \E g \in ValidLocations :
                to_screen_location(g, n_columns) = probe.coord)

\* A click on the address label of the second panel, in a line of the grid:
\* the column wrapped around, the panel and the row are in range.
C16_Witness ==
    /\ probe.op = "to_game_location" /\ ~probe.ret
    /\ n_panels >= 2
    /\ probe.new_location.panel < n_panels
    /\ probe.new_location.row < n_rows
    /\ probe.new_location.column >= SizeModulus - ADDRESS_LEN - 1

C18_ClampAtEdges ==
    [][(pc = "getch" /\ pc' = "render") =>
         ((\/ (ch' = "KEY_UP" /\ position.row = 0)
           \/ (ch' = "KEY_DOWN" /\ position.row = n_rows - 1)
           \/ (ch' = "KEY_LEFT" /\ position.column = 0 /\ position.panel = 0)
           \/ (ch' = "KEY_RIGHT" /\ position.column = n_columns - 1
                                 /\ position.panel = n_panels - 1))
          => position' = position)]_vars

\* Up was pressed in a grid of one row, with the cursor on the second panel.
C18_Witness ==
    /\ pc = "render" /\ ch = "KEY_UP" /\ n_rows = 1
    /\ n_panels = 2 /\ position.panel = 1

\* C19: left from column 0 of panel p > 0 goes to column n_columns - 1 of
\* panel p - 1, right from column n_columns - 1 of panel p < n_panels - 1
\* goes to column 0 of panel p + 1, the row unchanged; inside a panel left
\* and right change only the column, by 1, and up and down change only the
\* row, by 1.
C19_Moves ==
    [][(pc = "getch" /\ pc' = "render") =>
         /\ (ch' = "KEY_LEFT" /\ position.column = 0 /\ position.panel > 0) =>
               position' = GameLocation(position.panel - 1, n_columns - 1,
                                        position.row)
         /\ (ch' = "KEY_RIGHT" /\ position.column = n_columns - 1
                               /\ position.panel < n_panels - 1) =>
               position' = GameLocation(position.panel + 1, 0, position.row)
         /\ (ch' = "KEY_LEFT" /\ position.column > 0) =>
               position' = [position EXCEPT !.column = @ - 1]
         /\ (ch' = "KEY_RIGHT" /\ position.column < n_columns - 1) =>
               position' = [position EXCEPT !.column = @ + 1]
         /\ (ch' = "KEY_UP" /\ position.row > 0) =>
               position' = [position EXCEPT !.row = @ - 1]
         /\ (ch' = "KEY_DOWN" /\ position.row < n_rows - 1) =>
               position' = [position EXCEPT !.row = @ + 1]]_vars

\* Left was pressed on the first column of the second panel: the cursor is
\* on the last column of the first panel.
C19_Witness ==
    /\ pc = "render" /\ ch = "KEY_LEFT" /\ n_panels = 2
    /\ position = GameLocation(0, n_columns - 1, 0)

\* C20: after any sequence of inputs the cursor is on a cell of the grid:
\* panel < n_panels, row < n_rows, column < n_columns.
C20_PositionValid ==
    /\ position.panel \in 0..(n_panels - 1)
    /\ position.row \in 0..(n_rows - 1)
    /\ position.column \in 0..(n_columns - 1)

\* The cursor reached the last cell of the last panel, and the second row
\* of a grid of two rows.
C20_Witness ==
    /\ pc = "getch" /\ Initialized /\ state = "Running"
    /\ position = GameLocation(n_panels - 1, n_columns - 1, n_rows - 1)
    /\ n_panels + n_rows = 3

(* ==================== properties of the dictionary ===================== *)
\* The tokens of the file that are filed under the length i, counted with
\* their repetitions: a token is filed under the length of its text.
Bucket(i) == {j \in 1..Len(tokens) : Len(tokens[j]) = i}

\* C21: load_dictionary keeps the group of a length if and only if the
\* group has strictly more than 2 * n_words words (a group of exactly
\* 2 * n_words words is dropped).
C21_KeptIffEnough ==
    [][(pc = "initialize" /\ file_ok) =>
         \A i \in 0..(NumGroups - 1) :
            (\E k \in 1..Len(sorted_dictionary') :
                 sorted_dictionary'[k].length = i)
              <=> (Cardinality(Bucket(i)) > 2 * n_words)]_vars

\* Two words are asked for: the group of five words was kept, the group of
\* three words was dropped.
C21_Witness ==
    /\ pc = "place" /\ n_words = 2 /\ Len(sorted_dictionary) = 1
    /\ sorted_dictionary[1].length = 1
    /\ Cardinality(Bucket(1)) = 5 /\ Cardinality(Bucket(2)) = 3

\* C22: every group that load_dictionary keeps holds more than 2 * n_words
\* pairwise different words, also when the file repeats words.
C22_EnoughDistinct ==
    \A k \in 1..Len(sorted_dictionary) :
        Cardinality({sorted_dictionary[k].words[j] :
                        j \in 1..Len(sorted_dictionary[k].words)}) > 2 * n_words

\* Every group of the file is dropped by the filter: no length that occurs
\* in the file has more than 2 * n_words tokens (the groups of the lengths
\* that do not occur are empty and always dropped).
AllDropped ==
    \A j \in 1..Len(tokens) :
        Cardinality(Bucket(Len(tokens[j]))) <= 2 * n_words

\* C23: when every group is dropped by the filter, also when the file holds
\* no word at all, initialize returns false and no word is ever placed.
C23_NoGroupNoGame ==
    (file_ok /\ AllDropped) =>
        /\ words = <<>>
        /\ pc \in {"initialize", "exit"}
        /\ pc = "exit" => (init_ret = "false" /\ run_ret = "none")

\* initialize ended on a file whose only group has 2 * n_words words.
C23_Witness ==
    /\ file_ok /\ AllDropped /\ tokens # <<>>
    /\ pc = "exit" /\ init_ret = "false"

(* =================== properties of the feedback score ================== *)
\* How often the character c occurs in the string s.
Occurrences(s, c) == Cardinality({i \in 1..Len(s) : s[i] = c})

\* The size of the multiset intersection of the characters of a and b: the
\* sum over the characters c of min(count of c in a, count of c in b).
MultisetCommon(a, b) ==
    Cardinality({ck \in Chars \X (1..(MaxLetters + 1)) :
                    ck[2] <= Occurrences(a, ck[1]) /\ ck[2] <= Occurrences(b, ck[1])})

\* C24: count_common_letters(candidate, solution) is the size of the
\* multiset intersection of the characters of the two strings; in
\* particular CAT and CATS score 3, AABB and AB score 2, AAAA and AA score 2.
C24_ScoreIsMultisetIntersection ==
    probe.op = "count_common_letters" =>
        /\ probe.result = MultisetCommon(probe.a, probe.b)
        /\ (probe.a = <<"C", "A", "T">> /\ probe.b = <<"C", "A", "T", "S">>)
              => probe.result = 3
        /\ (probe.a = <<"A", "A", "B", "B">> /\ probe.b = <<"A", "B">>)
              => probe.result = 2
        /\ (probe.a = <<"A", "A", "A", "A">> /\ probe.b = <<"A", "A">>)
              => probe.result = 2

\* AAAA was scored against AA.
C24_Witness ==
    /\ probe.op = "count_common_letters"
    /\ probe.a = <<"A", "A", "A", "A">> /\ probe.b = <<"A", "A">>
    /\ probe.result = 2

\* C25 as stated: there are strings a and b whose score depends on the
\* order of the arguments; looked for among the strings the sessions score,
\* once a session has scored.
C25_Asymmetric ==
    probe.op = "count_common_letters" =>
        \E a \in ScoreInputs, b \in ScoreInputs :
            count_common_letters(a, b) # count_common_letters(b, a)

\* C25, amended: the score is symmetric, count_common_letters(a, b) =
\* count_common_letters(b, a) for all strings a and b.
C25_Symmetric ==
    probe.op = "count_common_letters" =>
        probe.result = count_common_letters(probe.b, probe.a)

\* Two strings of different lengths and letter counts were scored.
C25_Witness ==
    /\ probe.op = "count_common_letters"
    /\ probe.a = <<"A", "B">> /\ probe.b = <<"A", "A", "B", "B">>
    /\ probe.result = 2

(* ================== properties of the placement draws ================== *)
\* C26: a draw of find_unoccupied_space_for_word is tested only against
\* the placed words of its own panel: a draw that overlaps no placed word
\* of its panel is never rejected, whatever the other panels hold.
C26_OtherPanelNeverRejects ==
    (pc = "place" /\ total_words # 0 /\ round # 0) =>
        \A string \in {selection[i] : i \in 1..Len(selection)} :
          \A p \in 0..Sub(n_panels, 1),
             s \in 0..Sub(Mul(n_rows, n_columns), Len(string)) :
            LET d == Drawn(Word(0, 0, string), p, s)
            IN (\A i \in 1..Len(words) :
                    words[i].panel = p => ~overlap(d, words[i]))
                 => ~overlap_any(d, words)

\* C27: when the words are not longer than the grid (length <= n_rows *
\* n_columns) every placed word lies inside the grid: panel < n_panels,
\* end = start + length and end <= n_rows * n_columns.
C27_PlacedInsideGrid ==
    \A i \in 1..Len(words) :
        Len(words[i].string) <= n_rows * n_columns =>
            /\ words[i].panel \in 0..(n_panels - 1)
            /\ words[i].start >= 0
            /\ words[i].end = words[i].start + Len(words[i].string)
            /\ words[i].end <= n_rows * n_columns

\* A word of two letters fills the grid of two cells, and a word ends on
\* the last cell of the second panel of a grid of two panels.
C27_Witness ==
    /\ Len(words) >= 1
    /\ words[1].end = n_rows * n_columns
    /\ words[1].panel = n_panels - 1
    /\ n_panels + Len(words[1].string) = 3
    /\ Len(words[1].string) <= n_rows * n_columns

\* C28: the budget of 100 rounds is spent only by failures: an iteration
\* that places a word leaves round unchanged, an iteration that draws a
\* placed text or finds no room takes exactly 1 from it and places
\* nothing; the placement fails exactly when round reaches 0, which is
\* before n_words words are placed.
C28_BudgetSpentByFailures ==
    [][/\ (pc = "place" /\ pc' = "place") =>
             \/ /\ Len(words') = Len(words) + 1
                /\ round' = round
                /\ total_words' = total_words - 1
             \/ /\ words' = words
                /\ round' = round - 1
                /\ total_words' = total_words
       /\ (pc = "place" /\ pc' # "place") =>
             /\ round = 0 => (Len(words) < n_words /\ init_ret' = "false"
                                /\ solution' = <<>>)
             /\ round # 0 => (Len(words) = n_words /\ solution' # <<>>)]_vars

\* The budget is spent with one of two words placed: the hundredth failure
\* came before the second placement.
C28_Witness ==
    /\ pc = "exit" /\ init_ret = "false" /\ Len(words) = 1 /\ n_words = 2

\* A text of the pool that is not placed yet and for which the draws of
\* find_unoccupied_space_for_word can all be rejected.
CanFail(string) ==
    /\ NotYetSelected(words, Word(0, 0, string))
    /\ \E f \in find_unoccupied_space_for_word(Word(0, 0, string), 0, words,
                                               n_panels, n_rows, n_columns) :
          ~f.ret

\* C29: when find_unoccupied_space_for_word has spent its 20 draws it
\* returns false with panel, start and end of the word at 0 and the
\* coordinates empty (the text is kept), and the iteration of the caller
\* that spends a round leaves words unchanged.
C29_FailedPlacementLeavesNothing ==
    /\ []((pc = "place" /\ total_words # 0 /\ round # 0) =>
            \A string \in {selection[i] : i \in 1..Len(selection)} :
              NotYetSelected(words, Word(0, 0, string)) =>
                \A f \in find_unoccupied_space_for_word(
                            Word(0, 0, string), 0, words,
                            n_panels, n_rows, n_columns) :
                    ~f.ret =>
                       /\ f.draws = InnerRounds
                       /\ f.word = [panel |-> 0, start |-> 0, end |-> 0,
                                    string |-> string, coordinates |-> <<>>])
    /\ [][(pc = "place" /\ pc' = "place" /\ round' # round) =>
             words' = words]_vars

\* A round was spent on a word that is not placed yet and cannot be: the
\* one cell of the grid is taken.
C29_Witness ==
    /\ pc = "place" /\ round < OuterRounds /\ Len(words) = 1
    /\ n_rows * n_columns = 1 /\ n_panels = 1
    /\ \A i \in 1..Len(selection) :
          NotYetSelected(words, Word(0, 0, selection[i])) => CanFail(selection[i])
    /\ \E i \in 1..Len(selection) : CanFail(selection[i])

\* C30: every placed word has one coordinate for each character of its
\* text, and the coordinate of character i (counted from 0) is the screen
\* location of the cell of offset start + i of its panel: row
\* (start + i) / n_columns, column (start + i) % n_columns, in the
\* arithmetic of std::size_t; draws that were rejected leave no coordinate.
C30_CoordinatesOfPlacedWords ==
    \A k \in 1..Len(words) :
        /\ Len(words[k].coordinates) = Len(words[k].string)
        /\ \A i \in 0..(Len(words[k].string) - 1) :
              LET offset == (words[k].start + i) % SizeModulus
                  row == offset \div n_columns
                  column == offset % n_columns
              IN words[k].coordinates[i + 1] =
                    [x |-> ((ADDRESS_LEN + 1) * (words[k].panel + 1)
                              + (2 + n_columns) * words[k].panel + column)
                             % SizeModulus,
                     y |-> (HEADER_LEN + row) % SizeModulus]

\* A word of two letters stands in the column of a grid of two rows, its
\* second letter on the second row.
C30_Witness ==
    /\ Initialized /\ Len(words) >= 1
    /\ n_rows = 2 /\ Len(words[1].string) = 2
    /\ words[1].coordinates[2] = [x |-> ADDRESS_LEN + 1, y |-> HEADER_LEN + 1]

(* ================== properties of the input and render ================= *)
\* The four directional keys.
Directional == {"KEY_UP", "KEY_DOWN", "KEY_LEFT", "KEY_RIGHT"}

\* C31: parse_input never resolves a guess: for every input it leaves
\* attempts, solution and words unchanged; the enter key leaves position
\* unchanged and sets state to EnterPressed; a directional key leaves state
\* unchanged.
C31_ParseInputResolvesNothing ==
    [][(pc = "getch" /\ pc' = "render") =>
         /\ attempts' = attempts /\ solution' = solution /\ words' = words
         /\ ch' = "ENTER" => (position' = position /\ state' = "EnterPressed")
         /\ (ch' \in Directional) => state' = state]_vars

\* A directional key moved the cursor while state was still MousePressed
\* from the cycle before.
C31_Witness ==
    /\ pc = "render" /\ ch = "KEY_RIGHT" /\ state = "MousePressed"
    /\ position.column = 1

\* C32: when initialize returns true the session is in its initial state:
\* state Running, attempts = attempts_max, the cursor on panel 0, row 0,
\* column 0; the render inside initialize resolves no guess, also with a
\* word under the cursor.
C32_InitialSession ==
    [][(pc = "place" /\ init_ret' = "true") =>
         /\ state' = "Running"
         /\ attempts' = attempts_max
         /\ position' = GameLocation(0, 0, 0)
         /\ pc' = "getch" /\ run_ret' = "none"]_vars

\* initialize returned true with a word that is not the solution under the
\* cursor, and no input was read yet.
C32_Witness ==
    /\ Initialized /\ pc = "getch" /\ OnWrongWord
    /\ position = GameLocation(0, 0, 0)
    /\ state = "Running" /\ attempts = attempts_max /\ attempts_max = 1

\* C33: when initialize fails because of the dictionary (the file cannot be
\* read, holds no word, or every group is dropped) or because the placement
\* spent its rounds, it returns false with the display never initialised
\* and nothing rendered, and run() is never entered.
C33_FailsBeforeDisplay ==
    /\ [][((pc = "initialize" /\ init_ret' = "false")
           \/ (pc = "place" /\ pc' # "place" /\ (round = 0 \/ words = <<>>)))
            => (init_ret' = "false" /\ curses' = "off" /\ ~rendered'
                  /\ pc' = "exit")]_vars
    /\ [](init_ret = "false" =>
            (pc = "exit" /\ run_ret = "none" /\ ch = "none"))

\* initialize failed on the spent rounds, after a word was placed.
C33_Witness ==
    /\ init_ret = "false" /\ pc = "exit" /\ words # <<>> /\ solution = <<>>
    /\ curses = "off" /\ ~rendered

\* C34: state becomes Won or Lost only in a cycle whose input was an
\* activation (the enter key or a pointer click on a cell): no directional
\* or unrecognised key ends the session, whatever came before it.
C34_OnlyActivationEnds ==
    [][(pc = "render" /\ state' \in {"Won", "Lost"}) => Activation]_vars

\* The screen locations of the characters of the word w.
Drawn_At(w) == {w.coordinates[j] : j \in 1..Len(w.coordinates)}

\* The word w lies inside its panel: its span did not wrap around.
InsideGrid(w) == w.start < w.end /\ w.end <= n_rows * n_columns

\* C35: hit-testing agrees with the drawn word: for every placed word w
\* inside the grid and every cell g of the grid, w is selected at g (same
\* panel, start <= g.row * n_columns + g.column < end) if and only if the
\* screen location of g is one of the coordinates of w; a pointer click on
\* the screen location of a character of w puts the cursor on w; and at
\* most one placed word is under a cell.
C35_HitTestAgreesWithDrawing ==
    /\ \A k \in 1..Len(words) :
          InsideGrid(words[k]) =>
            /\ \A g \in ValidLocations :
                  is_selected(words[k], g.panel, g.row * n_columns + g.column)
                     <=> to_screen_location(g, n_columns) \in Drawn_At(words[k])
            /\ \A c \in Drawn_At(words[k]) :
                  LET m == parse_mouse_position(
                               "KEY_MOUSE", [ok |-> TRUE, x |-> c.x, y |-> c.y],
                               position, n_panels, n_rows, n_columns)
                  IN m.ret /\ find_selected_word(words, m.location, n_columns) = k
    /\ \A g \in ValidLocations :
          Cardinality({k \in 1..Len(words) :
                          is_selected(words[k], g.panel,
                                      g.row * n_columns + g.column)}) <= 1

\* A click on the second of two placed words is being evaluated.
C35_Witness ==
    /\ pc = "render" /\ clicked /\ Len(words) = 2 /\ Selected = 2
    /\ position.column = words[2].start /\ InsideGrid(words[2])

\* C36: a render that finds an activation (state MousePressed or
\* EnterPressed) with no placed word under the cursor returns false and
\* leaves attempts, position, solution and words as they were.
C36_MissedActivationIsFree ==
    [][(pc = "render" /\ Pressed(state) /\ Selected = 0) =>
         /\ render_ret' = FALSE
         /\ attempts' = attempts /\ position' = position
         /\ solution' = solution /\ words' = words]_vars

\* An activation on an empty cell was evaluated after a wrong guess had
\* been charged: the attempts left are still one below the maximum.
C36_Witness ==
    /\ Initialized /\ pc = "getch" /\ render_ret = FALSE /\ Pressed(state)
    /\ Selected = 0 /\ attempts_max = 2 /\ attempts = 1

\* C37: while the placement loop runs, selection holds more than n_words
\* strings (the group had more than 2 * n_words of them and at most n_words
\* were erased), so every index drawn from 0..size-1 is valid; and when
\* the loop has ended with rounds left, words is not empty, so the index of
\* the solution is drawn from a non-empty list.
C37_PoolNeverEmpty ==
    pc = "place" =>
      /\ Len(words) <= n_words
      /\ Len(selection) + Len(words) > 2 * n_words
      /\ Len(selection) > n_words
      /\ (total_words = 0 /\ round # 0) => words # <<>>

\* Two words are placed out of a group of five: three strings are left.
C37_Witness ==
    /\ pc = "place" /\ n_words = 2 /\ Len(words) = 2 /\ Len(selection) = 3
    /\ total_words = 0 /\ round # 0

\* C38: after a successful initialize no step changes words (strings,
\* panels, spans, coordinates) or solution: a wrongly guessed word stays
\* placed and can be activated again.
C38_GridIsFrozen ==
    [][Initialized => (words' = words /\ solution' = solution)]_vars

\* The session is lost with two attempts on a grid of two words: wrong
\* guesses were charged twice and the wrong word is still under the cursor.
C38_Witness ==
    /\ Initialized /\ state = "Lost" /\ attempts_max = 2 /\ attempts = 0
    /\ Len(words) = 2 /\ OnWrongWord

====
